---------------------------- MODULE Spec2Model ----------------------------
(***************************************************************************)
(* A model of matart: the shape-sequence generator of matart/geometry.py,  *)
(* its command-line entry point, and the Run / animation / click handlers  *)
(* of matart/app.py and matart/canvas.py.                                  *)
(*                                                                         *)
(* Numbers.  Shape parameters are Python floats (Dict[str, float]).  A     *)
(* float is modelled as an integer count of units of 2^-MantissaBits in a  *)
(* binary format with MantissaBits significant bits and round-to-nearest,  *)
(* ties-to-even: the IEEE-754 double format of CPython with the mantissa   *)
(* scaled down from 53 bits so that the values fit TLC's integers.  Every  *)
(* arithmetic operation of the code rounds its exact result to the format, *)
(* as the hardware does.                                                   *)
(***************************************************************************)
EXTENDS Integers, Sequences, FiniteSets, TLC

\* ------------------------------------------------------------ bounds
\* Significant bits of the float format (53 in CPython).
MantissaBits == 9
\* Largest iteration count tried.
MaxIter == 4
\* Left-clicks on the canvas between two Runs.
MaxClicks == 1
\* Runs of the UI.
MaxRuns == 2
\* Largest value of the iterations spin box tried.
MaxUiIter == 2

\* ------------------------------------------------------------ floats
RECURSIVE Pow2(_)
Pow2(n) == IF n <= 0 THEN 1 ELSE 2 * Pow2(n - 1)

\* Units per 1.0.
Scale == Pow2(MantissaBits)

\* The float of the whole number n.
F(n) == n * Scale

Abs(n) == IF n < 0 THEN -n ELSE n

\* Spacing of the floats at magnitude a (a >= 0, in units).
RECURSIVE Ulp(_)
Ulp(a) == IF a < Scale THEN 1 ELSE 2 * Ulp(a \div 2)

\* The float nearest the rational n / d units (d > 0), ties to even.
RoundQ(n, d) ==
    LET a == Abs(n)
        u == Ulp(a \div d)
        m == d * u
        k == a \div m
        r == a % m
        up == (2 * r > m) \/ (2 * r = m /\ k % 2 = 1)
        mag == (IF up THEN k + 1 ELSE k) * u
    IN IF n < 0 THEN -mag ELSE mag

\* float + float
FAdd(a, b) == RoundQ(a + b, 1)

\* float * float
FMul(a, b) == RoundQ(a * b, Scale)

\* float / float (b # 0)
FDiv(a, b) == IF b < 0 THEN RoundQ(-(a * Scale), -b) ELSE RoundQ(a * Scale, b)

\* C fmod: the exact remainder, with the sign of a.
CFmod(a, b) == IF a >= 0 THEN a % Abs(b) ELSE -((-a) % Abs(b))

\* float % float as CPython computes it: fmod, then the divisor is added (and the
\* sum rounded) when the remainder's sign differs from the divisor's.
PyMod(a, b) ==
    LET mod == CFmod(a, b)
    IN IF mod # 0
       THEN (IF (b < 0) # (mod < 0) THEN FAdd(mod, b) ELSE mod)
       ELSE 0

\* Largest k with k * k <= v.
ISqrt(v) == CHOOSE k \in 0..Pow2(MantissaBits + 1) : k * k <= v /\ (k + 1) * (k + 1) > v

\* The integer nearest sqrt(v).
RoundSqrt(v) == LET k == ISqrt(v) IN IF v - k * k > k THEN k + 1 ELSE k

\* math.sqrt(2): the float nearest the square root of 2 (in [1, 2): spacing 2 units).
Sqrt2 == 2 * RoundSqrt(2 * Pow2(MantissaBits - 1) * Pow2(MantissaBits - 1))

\* math.sin(math.radians(60)): the float nearest sqrt(3)/2 (in [1/2, 1): spacing 1 unit).
Sin60 == RoundSqrt(3 * Pow2(MantissaBits - 1) * Pow2(MantissaBits - 1))

\* The literal 1.1.
OnePointOne == RoundQ(11 * Scale, 10)

\* ------------------------------------------------------------ shapes
\* dict.get(key, default)
Get(d, key, default) == IF key \in DOMAIN d THEN d[key] ELSE default

Shape(name, params) == [name |-> name, params |-> params]

\* --- primitive rules

rule_scale_by_diagonal(shape, kwargs) ==
    LET size == Get(shape.params, "size", F(1))
        diag == FMul(size, Sqrt2)
        x == FAdd(Get(shape.params, "x", 0), FDiv(FAdd(size, diag), F(2)))
        y == Get(shape.params, "y", 0)
    IN Shape(shape.name,
             [x |-> x, y |-> y, size |-> diag,
              angle |-> Get(shape.params, "angle", 0),
              hue |-> Get(shape.params, "hue", 0)])

rule_uniform_scale(shape, kwargs) ==
    LET factor == Get(kwargs, "scale_factor", OnePointOne)
        prev == Get(shape.params, "size", F(1))
        new_size == FMul(prev, factor)
        x == FAdd(Get(shape.params, "x", 0), FDiv(FAdd(prev, new_size), F(2)))
        y == Get(shape.params, "y", 0)
    IN Shape(shape.name,
             [x |-> x, y |-> y, size |-> new_size,
              angle |-> Get(shape.params, "angle", 0),
              hue |-> Get(shape.params, "hue", 0)])

rule_rotate(shape, kwargs) ==
    LET inc == Get(kwargs, "rotation_increment", F(30))
        angle == PyMod(FAdd(Get(shape.params, "angle", 0), inc), F(360))
    IN Shape(shape.name,
             [x |-> Get(shape.params, "x", 0),
              y |-> Get(shape.params, "y", 0),
              size |-> Get(shape.params, "size", F(1)),
              angle |-> angle,
              hue |-> Get(shape.params, "hue", 0)])

rule_translate(shape, kwargs) ==
    LET dx == Get(kwargs, "translate_dx", Get(shape.params, "size", F(1)))
        dy == Get(kwargs, "translate_dy", 0)
    IN Shape(shape.name,
             [x |-> FAdd(Get(shape.params, "x", 0), dx),
              y |-> FAdd(Get(shape.params, "y", 0), dy),
              size |-> Get(shape.params, "size", F(1)),
              angle |-> Get(shape.params, "angle", 0),
              hue |-> Get(shape.params, "hue", 0)])

rule_hue_shift(shape, kwargs) ==
    LET delta == Get(kwargs, "hue_shift", F(10))
        hue == PyMod(FAdd(Get(shape.params, "hue", 0), delta), F(360))
    IN Shape(shape.name,
             [x |-> Get(shape.params, "x", 0),
              y |-> Get(shape.params, "y", 0),
              size |-> Get(shape.params, "size", F(1)),
              angle |-> Get(shape.params, "angle", 0),
              hue |-> hue])

\* --- preset generators

\* range(a, b) has this many elements.
RangeLen(a, b) == IF b > a THEN b - a ELSE 0

\* seq[:n]
Prefix(seq, n) ==
    IF n >= 0
    THEN SubSeq(seq, 1, IF n < Len(seq) THEN n ELSE Len(seq))
    ELSE SubSeq(seq, 1, IF Len(seq) + n > 0 THEN Len(seq) + n ELSE 0)

\* Mutant of FibExtend: each new term is twice the last one.
RECURSIVE FibExtend_doubling(_, _)
FibExtend_doubling(fib, k) ==
    IF k <= 0 THEN fib
    ELSE FibExtend_doubling(Append(fib, FAdd(fib[Len(fib)], fib[Len(fib)])), k - 1)

\* The loop of lines 89-90: k more terms, each the sum of the last two.
RECURSIVE FibExtend(_, _)
FibExtend(fib, k) ==
    IF k <= 0 THEN fib
    ELSE FibExtend(Append(fib, FAdd(fib[Len(fib)], fib[Len(fib) - 1])), k - 1)

\* Mutant of dirs: the cycle walked the other way round.
dirs_clockwise == << <<1, 0>>, <<0, -1>>, <<-1, 0>>, <<0, 1>> >>

\* Four direction cycle: right, up, left, down
dirs == << <<1, 0>>, <<0, 1>>, <<-1, 0>>, <<0, -1>> >>

\* The loop of lines 95-106 from index i (0-based) on, with the running x, y.
RECURSIVE SpiralLoop(_, _, _, _, _, _)
SpiralLoop(start, fib, i, x, y, seq) ==
    IF i >= Len(fib) THEN seq
    ELSE LET size == fib[i + 1]
             d == dirs[(i % 4) + 1]
             prev == IF i > 0 THEN fib[i] ELSE 0
             nx == IF i > 0
                   THEN FAdd(x, FDiv(FMul(F(d[1]), FAdd(prev, size)), F(2)))
                   ELSE x
             ny == IF i > 0
                   THEN FAdd(y, FDiv(FMul(F(d[2]), FAdd(prev, size)), F(2)))
                   ELSE y
             shape == Shape(start.name,
                            [x |-> nx, y |-> ny, size |-> size,
                             angle |-> F((i % 4) * 90),
                             hue |-> Get(start.params, "hue", 0)])
         IN SpiralLoop(start, fib, i + 1, nx, ny, Append(seq, shape))

generate_fibonacci_spiral(start, iterations, kwargs) ==
    LET s0 == Get(start.params, "size", F(1))
        fib == FibExtend(<<s0, s0>>, RangeLen(2, iterations))
    IN SpiralLoop(start, Prefix(fib, iterations), 0,
                  Get(start.params, "x", 0), Get(start.params, "y", 0), <<>>)

\* One edge of the triangle, from point a to point b.
KochEdge(start, a, b) ==
    Shape("line", [x1 |-> a[1], y1 |-> a[2], x2 |-> b[1], y2 |-> b[2],
                   hue |-> Get(start.params, "hue", 0)])

\* Mutant of generate_koch_snowflake: the third edge runs from the apex back to p2.
generate_koch_snowflake_open(start, iterations, kwargs) ==
    LET size == Get(start.params, "size", F(1))
        p1 == <<0, 0>>
        p2 == <<size, 0>>
        p3 == <<FDiv(size, F(2)), FMul(size, Sin60)>>
    IN <<KochEdge(start, p1, p2), KochEdge(start, p2, p3), KochEdge(start, p3, p2)>>

generate_koch_snowflake(start, iterations, kwargs) ==
    LET size == Get(start.params, "size", F(1))
        p1 == <<0, 0>>
        p2 == <<size, 0>>
        p3 == <<FDiv(size, F(2)), FMul(size, Sin60)>>
    IN <<KochEdge(start, p1, p2), KochEdge(start, p2, p3), KochEdge(start, p3, p1)>>

\* --- rule and preset registry (in insertion order)

PRIMITIVE_RULES == <<"scale_by_diagonal", "uniform_scale", "rotate", "translate", "hue_shift">>

PRESETS == <<"fibonacci_spiral", "koch_snowflake">>

RULES == PRIMITIVE_RULES \o PRESETS

Keys(registry) == {registry[i] : i \in 1..Len(registry)}

\* PRIMITIVE_RULES[rule_key](shape, **kwargs)
ApplyRule(rule_key, shape, kwargs) ==
    CASE rule_key = "scale_by_diagonal" -> rule_scale_by_diagonal(shape, kwargs)
      [] rule_key = "uniform_scale" -> rule_uniform_scale(shape, kwargs)
      [] rule_key = "rotate" -> rule_rotate(shape, kwargs)
      [] rule_key = "translate" -> rule_translate(shape, kwargs)
      [] rule_key = "hue_shift" -> rule_hue_shift(shape, kwargs)

\* PRESETS[rule_key](start, iterations=iterations, **kwargs)
ApplyPreset(rule_key, start, iterations, kwargs) ==
    CASE rule_key = "fibonacci_spiral" -> generate_fibonacci_spiral(start, iterations, kwargs)
      [] rule_key = "koch_snowflake" -> generate_koch_snowflake(start, iterations, kwargs)

\* --- sequence generation

\* The loop of lines 161-162: k more shapes, each the rule applied to the last.
RECURSIVE RuleLoop(_, _, _, _)
RuleLoop(rule_key, kwargs, seq, k) ==
    IF k <= 0 THEN seq
    ELSE RuleLoop(rule_key, kwargs,
                  Append(seq, ApplyRule(rule_key, seq[Len(seq)], kwargs)), k - 1)

Return(value) == [kind |-> "return", value |-> value]

Raise(exc) == [kind |-> "raise", exc |-> exc]

\* Mutant of generate_sequence: an unknown key falls back to the rotate rule.
generate_sequence_fallback(start, rule_key, iterations, kwargs) ==
    IF rule_key \in Keys(PRESETS)
    THEN Return(ApplyPreset(rule_key, start, iterations, kwargs))
    ELSE IF rule_key \notin Keys(PRIMITIVE_RULES)
    THEN Return(RuleLoop("rotate", kwargs, <<start>>, RangeLen(0, iterations - 1)))
    ELSE Return(RuleLoop(rule_key, kwargs, <<start>>, RangeLen(0, iterations - 1)))

generate_sequence(start, rule_key, iterations, kwargs) ==
    IF rule_key \in Keys(PRESETS)
    THEN Return(ApplyPreset(rule_key, start, iterations, kwargs))
    ELSE IF rule_key \notin Keys(PRIMITIVE_RULES)
    THEN Raise("ValueError")
    ELSE Return(RuleLoop(rule_key, kwargs, <<start>>, RangeLen(0, iterations - 1)))

\* ------------------------------------------------------------ text
\* A Python str is the sequence of its characters.

\* str(key) of a registry key
KeyText(key) ==
    CASE key = "scale_by_diagonal" ->
           <<"s", "c", "a", "l", "e", "_", "b", "y", "_", "d", "i", "a", "g", "o", "n", "a", "l">>
      [] key = "uniform_scale" ->
           <<"u", "n", "i", "f", "o", "r", "m", "_", "s", "c", "a", "l", "e">>
      [] key = "rotate" ->
           <<"r", "o", "t", "a", "t", "e">>
      [] key = "translate" ->
           <<"t", "r", "a", "n", "s", "l", "a", "t", "e">>
      [] key = "hue_shift" ->
           <<"h", "u", "e", "_", "s", "h", "i", "f", "t">>
      [] key = "fibonacci_spiral" ->
           <<"f", "i", "b", "o", "n", "a", "c", "c", "i", "_", "s", "p", "i", "r", "a", "l">>
      [] key = "koch_snowflake" ->
           <<"k", "o", "c", "h", "_", "s", "n", "o", "w", "f", "l", "a", "k", "e">>

Digit(d) == <<"0", "1", "2", "3", "4", "5", "6", "7", "8", "9">>[d + 1]

\* str(n) of an int n >= 0
RECURSIVE IntText(_)
IntText(n) == IF n < 10 THEN <<Digit(n)>> ELSE Append(IntText(n \div 10), Digit(n % 10))

\* f"Preset/Rule: {key}, generated {len(seq)} shapes"
DemoLine(key, n) ==
    <<"P", "r", "e", "s", "e", "t", "/", "R", "u", "l", "e", ":", " ">>
    \o KeyText(key)
    \o <<",", " ", "g", "e", "n", "e", "r", "a", "t", "e", "d", " ">>
    \o IntText(n)
    \o <<" ", "s", "h", "a", "p", "e", "s">>

\* The text the smoke test looks for.
SmokeText == <<"G", "e", "n", "e", "r", "a", "t", "e", "d", " ", "s", "h", "a", "p", "e", ":">>

\* needle in hay
Contains(hay, needle) ==
    \E i \in 0..(Len(hay) - Len(needle)) : SubSeq(hay, i + 1, i + Len(needle)) = needle

\* ------------------------------------------------------------ state
VARIABLES
    modname,          \* __name__ of geometry.py: "__main__" when run with -m
    call,             \* the call into the module being made, with its outcome
    cliPc,            \* the __main__ block: "skipped", "loop" or "exited"
    cliIdx,           \* keys of RULES the demo loop has done
    stdout,           \* the characters printed so far
    exitStatus,       \* "running", "ok" (status 0) or "error" (uncaught exception)
    current_shape,    \* CanvasWidget.current_shape ("None" or a shape name)
    shapes,           \* CanvasWidget.shapes
    pending_shapes,   \* MainWindow._pending_shapes
    timerActive,      \* MainWindow.timer.isActive()
    generated,        \* the sequence the last Run computed
    animated,         \* the last Run had animation speed > 0
    clicks,           \* shapes placed by left-clicks since the last Run
    runs              \* Runs so far

geomVars == <<modname, call, cliPc, cliIdx, stdout, exitStatus>>

uiVars == <<current_shape, shapes, pending_shapes, timerActive, generated, animated,
            clicks, runs>>

vars == <<modname, call, cliPc, cliIdx, stdout, exitStatus,
          current_shape, shapes, pending_shapes, timerActive, generated, animated,
          clicks, runs>>

\* ------------------------------------------------------------ inputs
\* Start shapes: a full square, a shape with angle and hue near the wrap, one with
\* angle and hue outside [0, 360), one with angle and hue a hair below 0 and a size a
\* hair above 1, a shape as a canvas click makes it (x, y, size only), a line, and a
\* shape with no parameters.
StartShapes ==
    { Shape("square", [x |-> 0, y |-> 0, size |-> F(2), angle |-> 0, hue |-> 0]),
      Shape("circle", [x |-> F(1), y |-> -F(2), size |-> F(3), angle |-> F(350),
                       hue |-> F(355)]),
      Shape("diamond", [x |-> 0, y |-> 0, size |-> F(1), angle |-> F(765),
                        hue |-> -F(30)]),
      Shape("polygon", [x |-> F(4), y |-> F(4), size |-> F(1) + 1, angle |-> -1,
                        hue |-> -1]),
      Shape("triangle", [x |-> F(5), y |-> F(7), size |-> F(20)]),
      Shape("line", [x1 |-> F(1), y1 |-> F(2), x2 |-> F(3), y2 |-> F(4), hue |-> F(20)]),
      Shape("square", << >>) }

\* Keyword arguments: none (the defaults), those the UI passes, negative and large
\* increments, and increments a hair below 0.
Configs ==
    { << >>,
      [scale_factor |-> OnePointOne, rotation_increment |-> F(30), translate_dx |-> 0,
       translate_dy |-> 0, hue_shift |-> F(10)],
      [scale_factor |-> F(2), rotation_increment |-> -F(45), translate_dx |-> -F(1),
       translate_dy |-> F(2), hue_shift |-> -F(400)],
      [rotation_increment |-> F(1000), hue_shift |-> F(360)],
      [rotation_increment |-> -1, hue_shift |-> -1] }

\* Keys: every registered one and some that are not.
RuleKeys == Keys(RULES) \cup {"not_a_real_key", "Rotate", ""}

IterCounts == 0..MaxIter

\* ------------------------------------------------------------ geometry.py
NoCall == [fn |-> "none"]

InitGeometry ==
    /\ modname \in {"__main__", "matart.geometry"}
    /\ call = NoCall
    /\ cliPc = IF modname = "__main__" THEN "loop" ELSE "skipped"
    /\ cliIdx = 0
    /\ stdout = << >>
    /\ exitStatus = "running"

InitUI ==
    /\ current_shape = "None"
    /\ shapes = << >>
    /\ pending_shapes = << >>
    /\ timerActive = FALSE
    /\ generated = << >>
    /\ animated = FALSE
    /\ clicks = 0
    /\ runs = 0

Init == InitGeometry /\ InitUI

\* A caller that imported the module applies one primitive rule.
CallRule ==
    /\ modname = "matart.geometry"
    /\ call = NoCall
    /\ \E rule_key \in Keys(PRIMITIVE_RULES), shape \in StartShapes, kwargs \in Configs :
         call' = [fn |-> "rule", rule_key |-> rule_key, start |-> shape,
                  kwargs |-> kwargs,
                  result |-> Return(ApplyRule(rule_key, shape, kwargs))]
    /\ UNCHANGED <<modname, cliPc, cliIdx, stdout, exitStatus>>
    /\ UNCHANGED uiVars

CallGenerateSequence ==
    /\ modname = "matart.geometry"
    /\ call = NoCall
    /\ \E start \in StartShapes, rule_key \in RuleKeys, iterations \in IterCounts,
          kwargs \in Configs :
         call' = [fn |-> "generate_sequence", rule_key |-> rule_key, start |-> start,
                  iterations |-> iterations, kwargs |-> kwargs,
                  result |-> generate_sequence(start, rule_key, iterations, kwargs)]
    /\ UNCHANGED <<modname, cliPc, cliIdx, stdout, exitStatus>>
    /\ UNCHANGED uiVars

CallFibonacciSpiral ==
    /\ modname = "matart.geometry"
    /\ call = NoCall
    /\ \E start \in StartShapes, iterations \in IterCounts :
         call' = [fn |-> "generate_fibonacci_spiral", start |-> start,
                  iterations |-> iterations, kwargs |-> << >>,
                  result |-> Return(generate_fibonacci_spiral(start, iterations, << >>))]
    /\ UNCHANGED <<modname, cliPc, cliIdx, stdout, exitStatus>>
    /\ UNCHANGED uiVars

CallKochSnowflake ==
    /\ modname = "matart.geometry"
    /\ call = NoCall
    /\ \E start \in StartShapes, iterations \in IterCounts :
         call' = [fn |-> "generate_koch_snowflake", start |-> start,
                  iterations |-> iterations, kwargs |-> << >>,
                  result |-> Return(generate_koch_snowflake(start, iterations, << >>))]
    /\ UNCHANGED <<modname, cliPc, cliIdx, stdout, exitStatus>>
    /\ UNCHANGED uiVars

\* The caller is done with the result.
Discard ==
    /\ call # NoCall
    /\ call' = NoCall
    /\ UNCHANGED <<modname, cliPc, cliIdx, stdout, exitStatus>>
    /\ UNCHANGED uiVars

\* The start shape of the CLI demo.
DemoShape == Shape("square", [x |-> 0, y |-> 0, size |-> F(100), angle |-> 0, hue |-> 0])

\* One pass of the demo loop (lines 168-170), or the end of the script.
CliStep ==
    /\ cliPc = "loop"
    /\ IF cliIdx < Len(RULES)
       THEN LET key == RULES[cliIdx + 1]
                res == generate_sequence(DemoShape, key, 5, << >>)
            IN IF res.kind = "return"
               THEN /\ stdout' = stdout \o DemoLine(key, Len(res.value)) \o <<"\n">>
                    /\ cliIdx' = cliIdx + 1
                    /\ UNCHANGED <<cliPc, exitStatus>>
               ELSE /\ cliPc' = "exited"
                    /\ exitStatus' = "error"
                    /\ UNCHANGED <<cliIdx, stdout>>
       ELSE /\ cliPc' = "exited"
            /\ exitStatus' = "ok"
            /\ UNCHANGED <<cliIdx, stdout>>
    /\ UNCHANGED <<modname, call>>
    /\ UNCHANGED uiVars

Next ==
    \/ CallRule
    \/ CallGenerateSequence
    \/ CallFibonacciSpiral
    \/ CallKochSnowflake
    \/ Discard
    \/ CliStep

Spec == Init /\ [][Next]_vars

\* ------------------------------------------------------------ app.py, canvas.py
\* Toolbar shapes the user picks among (the toolbar offers five).
ToolbarShapes == {"circle"}

\* Values of the size, iteration and animation-speed spin boxes tried.
SizeValues == {F(100)}

UiIterCounts == 1..MaxUiIter

SpeedValues == {0, 50}

\* Scene points a click lands on.
ClickPoints == {<<F(10), F(20)>>}

\* The keyword arguments run_sequence passes (lines 117-121).
UiConfig ==
    [scale_factor |-> OnePointOne, rotation_increment |-> F(30), translate_dx |-> 0,
     translate_dy |-> 0, hue_shift |-> F(10)]

InitImported ==
    /\ modname = "matart.geometry"
    /\ call = NoCall
    /\ cliPc = "skipped"
    /\ cliIdx = 0
    /\ stdout = << >>
    /\ exitStatus = "running"

\* A toolbar action is triggered.
SetCurrentShape ==
    /\ \E name \in ToolbarShapes : current_shape' = name
    /\ UNCHANGED <<shapes, pending_shapes, timerActive, generated, animated, clicks, runs>>
    /\ UNCHANGED geomVars

\* CanvasWidget.mousePressEvent.  pt is the scene point (lines 59-61): the pan offset
\* and the zoom only decide which scene point a widget position maps to.
MousePressEvent ==
    /\ clicks < MaxClicks
    /\ \E button \in {"LeftButton", "RightButton"}, pt \in ClickPoints :
         IF button = "LeftButton" /\ current_shape # "None"
         THEN /\ shapes' = Append(shapes,
                                  Shape(current_shape,
                                        [x |-> pt[1], y |-> pt[2], size |-> F(100)]))
              /\ clicks' = clicks + 1
         ELSE UNCHANGED <<shapes, clicks>>
    /\ UNCHANGED <<current_shape, pending_shapes, timerActive, generated, animated, runs>>
    /\ UNCHANGED geomVars

\* MainWindow.run_sequence: the Run button is clicked.
RunSequence ==
    /\ runs < MaxRuns
    /\ \E rule_key \in Keys(RULES), size \in SizeValues, iterations \in UiIterCounts,
          speed \in SpeedValues :
         LET shape_name == IF current_shape # "None" THEN current_shape ELSE "square"
             start_shape == Shape(shape_name,
                                  [x |-> 0, y |-> 0, size |-> size, angle |-> 0,
                                   hue |-> 0])
             res == generate_sequence(start_shape, rule_key, iterations, UiConfig)
         IN IF res.kind = "return"
            THEN /\ IF speed > 0
                    THEN /\ shapes' = << >>
                         /\ pending_shapes' = res.value
                         /\ timerActive' = TRUE
                    ELSE /\ shapes' = res.value
                         /\ timerActive' = FALSE
                         /\ UNCHANGED pending_shapes
                 /\ generated' = res.value
                 /\ animated' = (speed > 0)
                 /\ clicks' = 0
                 /\ runs' = runs + 1
            ELSE /\ timerActive' = FALSE
                 /\ UNCHANGED <<shapes, pending_shapes, generated, animated, clicks, runs>>
    /\ UNCHANGED current_shape
    /\ UNCHANGED geomVars

\* Mutant of AnimateStep: pop() in place of pop(0), so the last pending shape is
\* revealed first.
AnimateStep_pop_last ==
    /\ timerActive
    /\ IF pending_shapes = << >>
       THEN /\ timerActive' = FALSE
            /\ UNCHANGED <<shapes, pending_shapes>>
       ELSE /\ shapes' = Append(shapes, pending_shapes[Len(pending_shapes)])
            /\ pending_shapes' = SubSeq(pending_shapes, 1, Len(pending_shapes) - 1)
            /\ UNCHANGED timerActive
    /\ UNCHANGED <<current_shape, generated, animated, clicks, runs>>
    /\ UNCHANGED geomVars

\* MainWindow._animate_step: the timer fires.
AnimateStep ==
    /\ timerActive
    /\ IF pending_shapes = << >>
       THEN /\ timerActive' = FALSE
            /\ UNCHANGED <<shapes, pending_shapes>>
       ELSE /\ shapes' = Append(shapes, Head(pending_shapes))
            /\ pending_shapes' = Tail(pending_shapes)
            /\ UNCHANGED timerActive
    /\ UNCHANGED <<current_shape, generated, animated, clicks, runs>>
    /\ UNCHANGED geomVars

NextUI ==
    \/ SetCurrentShape
    \/ MousePressEvent
    \/ RunSequence
    \/ AnimateStep

\* The application has started: geometry.py imported, the window built.
InitApp == InitImported /\ InitUI

SpecUI == InitApp /\ [][NextUI]_vars

\* The event loop delivers the timeout of an active timer.
SpecUIFair == SpecUI /\ WF_vars(AnimateStep)

\* ------------------------------------------------------------ properties
IsCall(fn) == call.fn = fn

PrimitiveCall == IsCall("generate_sequence") /\ call.rule_key \in Keys(PRIMITIVE_RULES)

\* C1: generate_sequence(S, key, iterations=N) with a primitive rule key returns a
\* sequence of length exactly N, for every N >= 0, and its first element is S
\* whenever N >= 1.
C1_LengthIsIterations ==
    PrimitiveCall /\ call.iterations >= 0 =>
        /\ call.result.kind = "return"
        /\ Len(call.result.value) = call.iterations
        /\ (call.iterations >= 1 => call.result.value[1] = call.start)

\* C2: with a key that is neither a preset nor a primitive rule, generate_sequence
\* ends in the ValueError and returns no sequence, whatever the start shape, the
\* iteration count and the keyword arguments.
C2_UnknownKeyRaises ==
    IsCall("generate_sequence")
    /\ call.rule_key \notin (Keys(PRESETS) \cup Keys(PRIMITIVE_RULES)) =>
        /\ call.result.kind = "raise"
        /\ call.result.exc = "ValueError"
        /\ "value" \notin DOMAIN call.result

C2_Witness ==
    /\ IsCall("generate_sequence")
    /\ call.rule_key = "not_a_real_key"
    /\ call.iterations = MaxIter
    /\ call.result.kind = "raise"

\* v lies in [0, 360)
InCircle(v) == 0 <= v /\ v < F(360)

\* v is old + inc modulo 360
Wrapped(v, old, inc) == InCircle(v) /\ (v - FAdd(old, inc)) % F(360) = 0

\* C3: the angle rule_rotate returns and the hue rule_hue_shift returns lie in
\* [0, 360) and are congruent modulo 360 to the old value plus the increment, for
\* every input; so every element after the first of a rotate (hue_shift) sequence
\* has its angle (hue) in [0, 360).
C3_WrapInRange ==
    /\ IsCall("rule") /\ call.rule_key = "rotate" =>
         Wrapped(call.result.value.params.angle,
                 Get(call.start.params, "angle", 0),
                 Get(call.kwargs, "rotation_increment", F(30)))
    /\ IsCall("rule") /\ call.rule_key = "hue_shift" =>
         Wrapped(call.result.value.params.hue,
                 Get(call.start.params, "hue", 0),
                 Get(call.kwargs, "hue_shift", F(10)))
    /\ PrimitiveCall /\ call.rule_key = "rotate" =>
         \A i \in 2..Len(call.result.value) : InCircle(call.result.value[i].params.angle)
    /\ PrimitiveCall /\ call.rule_key = "hue_shift" =>
         \A i \in 2..Len(call.result.value) : InCircle(call.result.value[i].params.hue)

\* The parameters each rule is defined to alter (section 4.1 of the spec).
Altered(rule_key) ==
    CASE rule_key = "scale_by_diagonal" -> {"x", "size"}
      [] rule_key = "uniform_scale" -> {"x", "size"}
      [] rule_key = "rotate" -> {"angle"}
      [] rule_key = "translate" -> {"x", "y"}
      [] rule_key = "hue_shift" -> {"hue"}

\* C4: a primitive rule R keeps the kind of S and the value of every parameter of S
\* that R is not defined to alter, the keys x1, y1, x2, y2 of a line included.
C4_FramePreserved ==
    IsCall("rule") =>
        /\ call.result.value.name = call.start.name
        /\ \A k \in DOMAIN call.start.params \ Altered(call.rule_key) :
             /\ k \in DOMAIN call.result.value.params
             /\ call.result.value.params[k] = call.start.params[k]

\* A call of the Fibonacci preset, direct or through generate_sequence.
FibCall ==
    \/ IsCall("generate_fibonacci_spiral")
    \/ IsCall("generate_sequence") /\ call.rule_key = "fibonacci_spiral"

\* C5: generate_fibonacci_spiral(S, iterations=N), N >= 0, returns exactly N shapes
\* whose sizes are S.size, S.size and from then on the (float) sum of the two sizes
\* before.
C5_FibonacciSizes ==
    FibCall =>
        LET seq == call.result.value
            s0 == Get(call.start.params, "size", F(1))
        IN /\ call.result.kind = "return"
           /\ Len(seq) = call.iterations
           /\ \A i \in 1..Len(seq) :
                seq[i].params.size =
                    IF i <= 2 THEN s0
                    ELSE FAdd(seq[i - 1].params.size, seq[i - 2].params.size)

C5_Witness ==
    /\ IsCall("generate_fibonacci_spiral")
    /\ call.iterations = MaxIter
    /\ Len(call.result.value) = MaxIter
    /\ call.result.value[1].params.size = F(3)
    /\ call.result.value[MaxIter].params.size > F(6)

\* A call of the Koch preset, direct or through generate_sequence.
KochCall ==
    \/ IsCall("generate_koch_snowflake")
    \/ IsCall("generate_sequence") /\ call.rule_key = "koch_snowflake"

\* The squared length of a line shape.
SquaredLength(e) ==
    (e.params.x2 - e.params.x1) * (e.params.x2 - e.params.x1)
    + (e.params.y2 - e.params.y1) * (e.params.y2 - e.params.y1)

\* A squared length d2 is that of the side s, to within two float spacings at s.
IsSide(d2, s) ==
    LET u == Ulp(Abs(s))
        lo == IF Abs(s) > 2 * u THEN Abs(s) - 2 * u ELSE 0
        hi == Abs(s) + 2 * u
    IN lo * lo <= d2 /\ d2 <= hi * hi

\* C6: generate_koch_snowflake(S, iterations=N) returns exactly 3 line shapes that
\* form a closed triangle of side S.size: each edge ends where the next starts, the
\* third where the first starts; the base has length S.size exactly and the other
\* two sides to within float rounding; the result is the same for every N.
C6_KochTriangle ==
    KochCall =>
        LET seq == call.result.value
            size == Get(call.start.params, "size", F(1))
            next(i) == seq[(i % 3) + 1]
        IN /\ call.result.kind = "return"
           /\ Len(seq) = 3
           /\ \A i \in 1..3 :
                /\ seq[i].name = "line"
                /\ seq[i].params.x2 = next(i).params.x1
                /\ seq[i].params.y2 = next(i).params.y1
                /\ IsSide(SquaredLength(seq[i]), size)
           /\ SquaredLength(seq[1]) = size * size
           /\ \A n \in IterCounts : generate_koch_snowflake(call.start, n, << >>) = seq

C6_Witness ==
    /\ IsCall("generate_koch_snowflake")
    /\ call.iterations = MaxIter
    /\ Get(call.start.params, "size", F(1)) = F(3)
    /\ Len(call.result.value) = 3
    /\ call.result.value[3].params.y1 > 0

\* C7: run as the command-line entry point, the module exits with status 0 and its
\* output contains the text "Generated shape:".
C7_SmokeTextPrinted ==
    cliPc = "exited" => exitStatus = "ok" /\ Contains(stdout, SmokeText)

\* C8: generate_sequence agrees with the reference: a preset key gives exactly the
\* preset's result; a primitive key gives a sequence that starts with S and in which
\* every later element is the rule applied to the one before, the rule being applied
\* exactly N - 1 times.
C8_DriverMatchesReference ==
    IsCall("generate_sequence") /\ call.rule_key \in Keys(RULES) =>
        LET seq == call.result.value
        IN /\ call.result.kind = "return"
           /\ call.rule_key \in Keys(PRESETS) =>
                seq = ApplyPreset(call.rule_key, call.start, call.iterations, call.kwargs)
           /\ call.rule_key \in Keys(PRIMITIVE_RULES) =>
                /\ seq[1] = call.start
                /\ \A i \in 2..Len(seq) :
                     seq[i] = ApplyRule(call.rule_key, seq[i - 1], call.kwargs)
                /\ Len(seq) - 1 = call.iterations - 1

\* The position of shape i of the spiral is that of shape i-1 moved by half along one
\* axis: the direction is the entry i mod 4 of the cycle right, up, left, down.
SpiralMove(prev, cur, i, half) ==
    CASE i % 4 = 0 -> cur.x = FAdd(prev.x, half) /\ cur.y = prev.y
      [] i % 4 = 1 -> cur.y = FAdd(prev.y, half) /\ cur.x = prev.x
      [] i % 4 = 2 -> cur.x = FAdd(prev.x, -half) /\ cur.y = prev.y
      [] i % 4 = 3 -> cur.y = FAdd(prev.y, -half) /\ cur.x = prev.x

IsPlaced(s) == DOMAIN s.params = {"x", "y", "size"}

IsGenerated(s) == ~IsPlaced(s)

\* The shapes on the canvas that no click placed.
Revealed == SelectSeq(shapes, IsGenerated)

\* The animation of Run number n is over.
Settled(onCanvas) == pending_shapes = << >> /\ onCanvas = generated /\ ~timerActive

\* C10 as stated: after an animated Run and until the next Run, under timer ticks
\* and left-clicks, the canvas followed by the pending shapes is the generated
\* sequence, and eventually the pending list is empty, the canvas holds exactly the
\* generated sequence and the timer is stopped.
C10_CanvasIsGenerated ==
    /\ [](animated => shapes \o pending_shapes = generated)
    /\ \A n \in 1..MaxRuns :
         (runs = n /\ animated) ~> (runs # n \/ Settled(shapes))

\* C10, amended: the same of the canvas without the shapes that left-clicks placed
\* since the Run, which stay on the canvas where they were clicked in.
C10_RevealedIsGenerated ==
    /\ [](animated => /\ Revealed \o pending_shapes = generated
                      /\ Len(shapes) = Len(Revealed) + clicks)
    /\ \A n \in 1..MaxRuns :
         (runs = n /\ animated) ~> (runs # n \/ Settled(Revealed))

\* A second, animated Run has finished with a click between two reveals.
C10_Witness ==
    /\ runs = 2
    /\ animated
    /\ Settled(Revealed)
    /\ clicks = 1
    /\ Len(shapes) >= 3
    /\ IsPlaced(shapes[2])

=============================================================================
